---- MODULE Spec2Model ----
(***************************************************************************)
(* AdminDashboard (src/src/components/dashboards/AdminDashboard.tsx):      *)
(* the component's hook state, its two effects, its four submit handlers,  *)
(* its delete buttons and its timetable selector, running against the      *)
(* realtime store reached through dbListen / dbPush / dbRemove.            *)
(*                                                                         *)
(* The store adapter (@/lib/firebase) is not part of the source tree; it   *)
(* is modelled from the specification's contract for subscribe, push and   *)
(* remove (sections 2, 4.2, 5 and 6 of spec.md).                           *)
(*                                                                         *)
(* Representation.  A record body is a TLA+ record.  A mapping delivered   *)
(* by the store (a snapshot payload) is a sequence of <<key, body>> pairs  *)
(* in the order Object.entries enumerates it; the store never holds an     *)
(* empty mapping, so the empty sequence stands for the null payload.       *)
(* An ISO-8601 timestamp string is a record [date, time].                  *)
(***************************************************************************)
EXTENDS Integers, Sequences, FiniteSets, TLC

\* ------------------------------------------------------------------ bounds

\* Clock readings new Date() can return are 0..MaxClock.
MaxClock == 1
\* Number of dbPush calls the handlers issue in one run.
MaxPush == 1
\* Number of dbRemove calls issued in one run next to the forms.
MaxRemove == 1
\* Number of dbRemove calls issued in one run of the delete buttons alone.
MaxDelete == 3
\* Number of forms that hold entered values at the same time.
MaxDirty == 1
\* Number of times the timetable selection is changed in one run.
MaxSelect == 3
\* Number of writes other clients make to the schedules in one run.
MaxSchedWrite == 2
\* Number of writes in flight at the same time.
MaxInFlight == 2

\* Numbers of records a store holds when the component mounts on it.
MaxTeachers == 2
MaxClasses == 4
MaxStudents == 5
MaxAnnouncements == 3
\* Creation times of the announcements such a store holds are 0..MaxStamp.
MaxStamp == 1
\* Classes and students of the store the reports page is drawn over.
MaxReportClasses == 3
MaxReportStudents == 3
\* Selection changes in a run that also submits and deletes.
MaxPathSelect == 1
\* Records of a store filled by other clients.
MaxForeign == 3
\* Teachers of the store the subject report is drawn over.
MaxSubjectTeachers == 3
\* Pushes the Save button of one form may issue in a run.
MaxResubmit == 2

\* Number of clock ticks in the time part of a timestamp string.
TicksPerDay == 2

\* ------------------------------------------------------------- value sets

NameInputs == {"Cy"}
ClassNameInputs == {"1B"}
TextInputs == {"x"}
Priorities == {"normal", "important", "urgent"}
Modals == {"teacher", "class", "student", "announcement"}
Collections == {"teachers", "classes", "students", "announcements"}
NoModal == "null"
Clock == 0..MaxClock

\* Keys the store generates for pushed records, in generation order.
Key(n) == ToString(n)

\* -------------------------------------------------------- JavaScript ops

\* { ...a, ...b }: the fields of a, then the fields of b over them.
Spread(a, b) ==
  [f \in (DOMAIN a) \cup (DOMAIN b) |-> IF f \in DOMAIN b THEN b[f] ELSE a[f]]

\* new Date(t).toISOString()
ToISOString(t) == [date |-> t \div TicksPerDay, time |-> t % TicksPerDay]

\* new Date(s).getTime()
DateGetTime(s) == s.date * TicksPerDay + s.time

\* The index of the first element of seq with the given id, 0 when none
\* (Array.prototype.find with the predicate x => x.id === id).
FindIndex(seq, id) ==
  IF \E i \in 1..Len(seq) : seq[i].id = id
  THEN CHOOSE i \in 1..Len(seq) :
         /\ seq[i].id = id
         /\ \A j \in 1..(i - 1) : seq[j].id # id
  ELSE 0

\* The lookup that leaves the name empty when no element is found.
NameOrEmpty(seq, id) ==
  LET i == FindIndex(seq, id)
  IN  IF i = 0 THEN "" ELSE seq[i].name

\* The lookup that takes the name of the first element whenever one is found.
NameOfFirst(seq, id) ==
  LET i == FindIndex(seq, id)
  IN  IF i = 0 THEN "Unassigned" ELSE seq[1].name

\* x?.name || 'Unassigned', x being seq.find(e => e.id === id)
NameOrUnassigned(seq, id) ==
  LET i == FindIndex(seq, id)
  IN  IF i = 0 THEN "Unassigned"
      ELSE IF seq[i].name = "" THEN "Unassigned" ELSE seq[i].name

\* The mapping that lists the records in the reverse of the payload's order.
MapEntriesReversed(data) ==
  [i \in 1..Len(data) |->
     Spread([id |-> data[Len(data) + 1 - i][1]], data[Len(data) + 1 - i][2])]

\* Object.entries(data).map(([id, r]) => ({ id, ...r }))
MapEntries(data) ==
  [i \in 1..Len(data) |-> Spread([id |-> data[i][1]], data[i][2])]

\* The comparator with its operands exchanged: an ascending sort.
CompareCreatedAtAscending(a, b) ==
  DateGetTime(a.createdAt) - DateGetTime(b.createdAt)

\* The comparator of the announcements sort:
\* (a, b) => new Date(b.createdAt).getTime() - new Date(a.createdAt).getTime()
CompareCreatedAt(a, b) == DateGetTime(b.createdAt) - DateGetTime(a.createdAt)

\* sorted with x inserted behind every element that does not compare after it
InsertByCreatedAt(sorted, x) ==
  LET after == {i \in 1..Len(sorted) : CompareCreatedAt(sorted[i], x) > 0}
      at    == IF after = {} THEN Len(sorted) + 1
               ELSE CHOOSE i \in after : \A j \in after : i <= j
  IN  SubSeq(sorted, 1, at - 1) \o <<x>> \o SubSeq(sorted, at, Len(sorted))

\* Array.prototype.sort with CompareCreatedAt (a stable sort)
RECURSIVE SortByCreatedAt(_)
SortByCreatedAt(seq) ==
  IF seq = <<>> THEN <<>>
  ELSE InsertByCreatedAt(SortByCreatedAt(SubSeq(seq, 1, Len(seq) - 1)),
                         seq[Len(seq)])

\* The grades the report's classes carry.
Grades == {"1", "10", "2"}

\* The characters of a grade or of a report label as their ranks in the
\* collation order localeCompare uses: the space before the digits in
\* numeric order, the digits before the letters in alphabetic order.
Ranks(s) ==
  LET digits(g) == CASE g = "1" -> <<2>>
                     [] g = "10" -> <<2, 1>>
                     [] g = "2" -> <<3>>
  IN  IF s \in Grades THEN digits(s)
      ELSE LET g == CHOOSE g \in Grades : s = "Grade " \o g
           IN  <<17, 28, 11, 14, 15, 0>> \o digits(g)

\* The comparison that places a before b when it sorts after it.
LocaleCompareReversed(a, b) ==
  LET x == Ranks(a)
      y == Ranks(b)
      differ == {i \in 1..Len(x) : i <= Len(y) /\ x[i] # y[i]}
      at == IF differ = {} THEN 0 ELSE CHOOSE i \in differ : \A j \in differ : i <= j
  IN  IF at # 0 THEN (IF x[at] < y[at] THEN 1 ELSE -1)
      ELSE IF Len(x) < Len(y) THEN 1
      ELSE IF Len(x) > Len(y) THEN -1 ELSE 0

\* a.localeCompare(b): negative when a sorts before b, positive when after,
\* zero when the two are equal; decided by the first character that
\* differs and, when one is a prefix of the other, by length.
LocaleCompare(a, b) ==
  LET x == Ranks(a)
      y == Ranks(b)
      differ == {i \in 1..Len(x) : i <= Len(y) /\ x[i] # y[i]}
      at == IF differ = {} THEN 0 ELSE CHOOSE i \in differ : \A j \in differ : i <= j
  IN  IF at # 0 THEN (IF x[at] < y[at] THEN -1 ELSE 1)
      ELSE IF Len(x) < Len(y) THEN -1
      ELSE IF Len(x) > Len(y) THEN 1 ELSE 0

\* sorted with x inserted behind every element whose name does not compare
\* after its name
InsertByName(sorted, x) ==
  LET after == {i \in 1..Len(sorted) : LocaleCompare(sorted[i].name, x.name) > 0}
      at    == IF after = {} THEN Len(sorted) + 1
               ELSE CHOOSE i \in after : \A j \in after : i <= j
  IN  SubSeq(sorted, 1, at - 1) \o <<x>> \o SubSeq(sorted, at, Len(sorted))

\* Array.prototype.sort with (a, b) => a.name.localeCompare(b.name)
RECURSIVE SortByName(_)
SortByName(seq) ==
  IF seq = <<>> THEN <<>>
  ELSE InsertByName(SortByName(SubSeq(seq, 1, Len(seq) - 1)), seq[Len(seq)])

\* The rounding that sends an exact half down.
MathRoundDivHalfDown(s, c) ==
  (s \div c) + (IF 2 * (s % c) > c THEN 1 ELSE 0)

\* Math.round(s / c) for integers s >= 0 and c > 0: the quotient, and one
\* more when the fractional part is at least one half.
MathRoundDiv(s, c) ==
  (s \div c) + (IF 2 * (s % c) >= c THEN 1 ELSE 0)

\* ------------------------------------------------------------------ state

VARIABLES
  teachers,                \* useState<Teacher[]>([])
  classes,                 \* useState<Class[]>([])
  students,                \* useState<Student[]>([])
  announcements,           \* useState<Announcement[]>([])
  showModal,               \* useState<string | null>(null)
  newTeacher,              \* the teacher draft
  newClass,                \* the class draft
  newStudent,              \* the student draft
  newAnnouncement,         \* the announcement draft
  selectedTimetableClass,  \* useState<string>('')
  timetableData,           \* useState<Record<string, slot[]>>({})
  toast,                   \* the notification last raised with toast(...)
  mounted,                 \* the component is mounted
  unsubs,                  \* listeners the cleanup of the first effect releases
  unsub,                   \* listener the cleanup of the second effect releases, 0 when none
  store,                   \* remote store: collection -> sequence of [k, val] by key
  schedules,               \* remote store: class id -> schedule mapping
  listeners,               \* remote store: active listener id -> [path, queue]
  calls,                   \* the dbListen and unsubscribe calls so far, in order
  writes,                  \* writes in flight, in the order they were issued
  nextKey,                 \* number of the next key a push generates
  timetableFrom,           \* listener whose snapshot set timetableData, 0 when none
  quota                    \* what the run may still do: pushes, removes,
                           \* selection changes, schedule writes by others

vars ==
  <<teachers, classes, students, announcements, showModal, newTeacher, newClass,
    newStudent, newAnnouncement, selectedTimetableClass, timetableData, toast,
    mounted, unsubs, unsub, store, schedules, listeners, calls,
    writes, nextKey, timetableFrom, quota>>

viewState == <<teachers, classes, students, announcements>>
drafts == <<newTeacher, newClass, newStudent, newAnnouncement>>
timetableState ==
  <<selectedTimetableClass, timetableData, unsub, timetableFrom>>
remoteState == <<store, schedules, listeners, calls, writes, nextKey>>

EmptyTeacher == [name |-> "", username |-> "", password |-> "", subject |-> ""]
EmptyClass == [name |-> "", grade |-> "", teacherId |-> ""]
EmptyStudent == [name |-> "", username |-> "", password |-> "", classId |-> ""]
EmptyAnnouncement == [title |-> "", content |-> "", priority |-> "normal"]

\* ------------------------------------------------ the store adapter

\* The value the store holds at a path, as a snapshot payload.
ValueAt(st, sch, path) ==
  IF path[1] = "schedules"
  THEN IF path[2] \in DOMAIN sch THEN sch[path[2]] ELSE <<>>
  ELSE [i \in 1..Len(st[path[1]]) |->
          <<Key(st[path[1]][i].k), st[path[1]][i].val>>]

\* The listeners after the store's value at path has become data: every
\* listener on that path is sent the full new value.
Emit(ls, path, data) ==
  [l \in DOMAIN ls |->
     IF ls[l].path = path
     THEN [ls[l] EXCEPT !.queue = Append(@, data)]
     ELSE ls[l]]

\* dbListen(path, cb): one new listener, which is first sent the current value.
DbListen(ls, lid, path, data) ==
  [l \in (DOMAIN ls) \cup {lid} |->
     IF l = lid THEN [path |-> path, queue |-> <<data>>] ELSE ls[l]]

\* The unsubscribe function dbListen returned: releases the listeners in lids;
\* nothing is delivered to a released listener.  Releasing twice is harmless.
Unsubscribe(ls, lids) == [l \in (DOMAIN ls) \ lids |-> ls[l]]

\* The store's collection without the record at key id.
WithoutKey(seq, id) ==
  LET keep == {i \in 1..Len(seq) : Key(seq[i].k) # id}
      Nth(n) == CHOOSE i \in keep : Cardinality({j \in keep : j < i}) = n - 1
  IN  [n \in 1..Cardinality(keep) |-> seq[Nth(n)]]

\* The record of a dbListen call and of a call of the function it returned.
ListenCall(lid, path) == [fn |-> "dbListen", lid |-> lid, path |-> path]

UnsubCall(lid) == [fn |-> "unsubscribe", lid |-> lid, path |-> <<>>]

\* The listener the next dbListen call registers.
NextListener(cs) == 1 + Cardinality({i \in 1..Len(cs) : cs[i].fn = "dbListen"})

\* dbPush(path, value): the write as it is queued towards the store.
PushWrite(coll, k, value, by) ==
  [op |-> "push", path |-> <<coll>>, k |-> k, val |-> value,
   by |-> by, phase |-> "sent"]

\* The remove that names the collection instead of the record in it.
RemoveWriteCollection(coll, id) ==
  [op |-> "remove", path |-> <<coll>>, k |-> 0,
   val |-> [removed |-> TRUE], by |-> "delete", phase |-> "sent"]

\* The remove that names the first record listed instead of the one clicked.
RemoveWriteFirst(coll, id) ==
  [op |-> "remove", path |-> <<coll, Key(store[coll][1].k)>>, k |-> 0,
   val |-> [removed |-> TRUE], by |-> "delete", phase |-> "sent"]

\* dbRemove(path): the write as it is queued towards the store.
RemoveWrite(coll, id) ==
  [op |-> "remove", path |-> <<coll, id>>, k |-> 0, val |-> [removed |-> TRUE],
   by |-> "delete", phase |-> "sent"]

\* --------------------------------------------------- snapshot callbacks

\* The callback that leaves out the last entry of the payload.
MaterializeWithoutLast(data) ==
  IF data # <<>> THEN MapEntries(SubSeq(data, 1, Len(data) - 1)) ELSE <<>>

\* (data) => setX(data ? Object.entries(data).map(([id, r]) => ({ id, ...r })) : [])
Materialize(data) == IF data # <<>> THEN MapEntries(data) ELSE <<>>

\* (data) => setAnnouncements(data ? Object.entries(data).map(...).sort(...) : [])
MaterializeAnnouncements(data) ==
  IF data # <<>> THEN SortByCreatedAt(MapEntries(data)) ELSE <<>>

\* ------------------------------------------------------------- mounting

MainPaths == << <<"teachers">>, <<"classes">>, <<"students">>, <<"announcements">> >>

\* The state of the component mounted over a store holding st and sch.
\* The hooks hold their initial values, the first effect has calls its
\* four listeners, the second has found no class selected.  With seen, the
\* first snapshot of each listener has already been delivered.
MountedOver(st, sch, seen, q) ==
  /\ store = st
  /\ schedules = sch
  /\ teachers = IF seen THEN Materialize(ValueAt(st, sch, <<"teachers">>)) ELSE <<>>
  /\ classes = IF seen THEN Materialize(ValueAt(st, sch, <<"classes">>)) ELSE <<>>
  /\ students = IF seen THEN Materialize(ValueAt(st, sch, <<"students">>)) ELSE <<>>
  /\ announcements =
       IF seen THEN MaterializeAnnouncements(ValueAt(st, sch, <<"announcements">>))
       ELSE <<>>
  /\ showModal = NoModal
  /\ newTeacher = EmptyTeacher
  /\ newClass = EmptyClass
  /\ newStudent = EmptyStudent
  /\ newAnnouncement = EmptyAnnouncement
  /\ selectedTimetableClass = ""
  /\ timetableData = <<>>
  /\ toast = "none"
  /\ mounted = TRUE
  /\ unsubs = {1, 2, 3, 4}
  /\ unsub = 0
  /\ calls = [l \in 1..4 |-> ListenCall(l, MainPaths[l])]
  /\ listeners =
       [l \in 1..4 |->
          [path |-> MainPaths[l],
           queue |-> IF seen THEN <<>> ELSE <<ValueAt(st, sch, MainPaths[l])>>]]
  /\ writes = <<>>
  /\ nextKey = 1 + Len(st["teachers"]) + Len(st["classes"]) + Len(st["students"])
                 + Len(st["announcements"])
  /\ timetableFrom = 0
  /\ quota = q

\* The user can act on the component: it is mounted.
Interactive == mounted

\* ------------------------------------------------------------ the forms

\* onClick={() => setShowModal(action.modal)} and the Add buttons
OpenModal(m) ==
  /\ Interactive
  /\ showModal # m
  /\ showModal' = m
  /\ UNCHANGED <<viewState, drafts, timetableState, remoteState, toast, mounted,
                 unsubs, quota>>

\* onClose={() => setShowModal(null)}
CloseModal ==
  /\ Interactive
  /\ showModal # NoModal
  /\ showModal' = NoModal
  /\ UNCHANGED <<viewState, drafts, timetableState, remoteState, toast, mounted,
                 unsubs, quota>>

\* The drafts, by form, and their initial values.
Draft(m) ==
  CASE m = "teacher" -> newTeacher
    [] m = "class" -> newClass
    [] m = "student" -> newStudent
    [] m = "announcement" -> newAnnouncement

EmptyDraft(m) ==
  CASE m = "teacher" -> EmptyTeacher
    [] m = "class" -> EmptyClass
    [] m = "student" -> EmptyStudent
    [] m = "announcement" -> EmptyAnnouncement

\* The form m may take an entered value: at most MaxDirty forms hold
\* entered values at the same time.
MayEnter(m) ==
  Cardinality({d \in Modals \ {m} : Draft(d) # EmptyDraft(d)}) < MaxDirty

\* The ids the teacher select of the class form offers.
TeacherOptions == {""} \cup {teachers[i].id : i \in 1..Len(teachers)}

\* The ids the class select of the student form offers.
ClassOptions == {""} \cup {classes[i].id : i \in 1..Len(classes)}

TeacherInputs(f) == IF f = "name" THEN NameInputs \cup {""} ELSE TextInputs \cup {""}

ClassInputs(f) ==
  IF f = "teacherId" THEN TeacherOptions
  ELSE IF f = "name" THEN ClassNameInputs \cup {""} ELSE TextInputs \cup {""}

StudentInputs(f) == IF f = "classId" THEN ClassOptions ELSE TextInputs \cup {""}

AnnouncementInputs(f) ==
  IF f = "priority" THEN Priorities ELSE TextInputs \cup {""}

\* onChange={(e) => setNewTeacher({...newTeacher, [f]: e.target.value})}
SetTeacherField(f, v) ==
  /\ Interactive
  /\ showModal = "teacher"
  /\ v # newTeacher[f]
  /\ MayEnter("teacher")
  /\ newTeacher' = Spread(newTeacher, [g \in {f} |-> v])
  /\ UNCHANGED <<viewState, showModal, newClass, newStudent, newAnnouncement,
                 timetableState, remoteState, toast, mounted, unsubs, quota>>

\* onChange={(e) => setNewClass({...newClass, [f]: e.target.value})}
SetClassField(f, v) ==
  /\ Interactive
  /\ showModal = "class"
  /\ v # newClass[f]
  /\ MayEnter("class")
  /\ newClass' = Spread(newClass, [g \in {f} |-> v])
  /\ UNCHANGED <<viewState, showModal, newTeacher, newStudent, newAnnouncement,
                 timetableState, remoteState, toast, mounted, unsubs, quota>>

\* onChange={(e) => setNewStudent({...newStudent, [f]: e.target.value})}
SetStudentField(f, v) ==
  /\ Interactive
  /\ showModal = "student"
  /\ v # newStudent[f]
  /\ MayEnter("student")
  /\ newStudent' = Spread(newStudent, [g \in {f} |-> v])
  /\ UNCHANGED <<viewState, showModal, newTeacher, newClass, newAnnouncement,
                 timetableState, remoteState, toast, mounted, unsubs, quota>>

\* onChange={(e) => setNewAnnouncement({...newAnnouncement, [f]: e.target.value})}
SetAnnouncementField(f, v) ==
  /\ Interactive
  /\ showModal = "announcement"
  /\ v # newAnnouncement[f]
  /\ MayEnter("announcement")
  /\ newAnnouncement' = Spread(newAnnouncement, [g \in {f} |-> v])
  /\ UNCHANGED <<viewState, showModal, newTeacher, newClass, newStudent,
                 timetableState, remoteState, toast, mounted, unsubs, quota>>

\* ------------------------------------------------------ submit handlers

\* The teacher validation without its check of the password.
TeacherMissingNoPassword ==
  newTeacher.name = "" \/ newTeacher.username = "" \/ newTeacher.subject = ""

\* The validation of each handler: some required field is empty.
TeacherMissing ==
  newTeacher.name = "" \/ newTeacher.username = "" \/ newTeacher.password = ""
    \/ newTeacher.subject = ""

ClassMissing == newClass.name = "" \/ newClass.grade = "" \/ newClass.teacherId = ""

StudentMissing ==
  newStudent.name = "" \/ newStudent.username = "" \/ newStudent.password = ""
    \/ newStudent.classId = ""

AnnouncementMissing == newAnnouncement.title = "" \/ newAnnouncement.content = ""

\* The record each handler hands to dbPush when the clock reads t.
TeacherRecord(t) == Spread(newTeacher, [createdAt |-> ToISOString(t)])

ClassRecord(t) ==
  Spread(newClass, [teacherName |-> NameOrUnassigned(teachers, newClass.teacherId),
                    createdAt |-> ToISOString(t)])

StudentRecord(t) ==
  Spread(newStudent, [className |-> NameOrUnassigned(classes, newStudent.classId),
                      createdAt |-> ToISOString(t)])

AnnouncementRecord(t) ==
  Spread(newAnnouncement, [author |-> "Principal", createdAt |-> ToISOString(t)])

\* The refusal that also clears the drafts.
RejectDraftClearing ==
  /\ toast' = "error"
  /\ newTeacher' = EmptyTeacher
  /\ newClass' = EmptyClass
  /\ newStudent' = EmptyStudent
  /\ newAnnouncement' = EmptyAnnouncement
  /\ UNCHANGED <<viewState, showModal, timetableState, remoteState, mounted, unsubs,
                 quota>>

\* toast({ title: "Error", ..., variant: "destructive" }); return;
RejectDraft ==
  /\ toast' = "error"
  /\ UNCHANGED <<viewState, showModal, drafts, timetableState, remoteState, mounted,
                 unsubs, quota>>

\* The push after which the handler does not wait: it resets its draft,
\* closes the modal and raises the success toast at once.
IssuePushNotAwaiting(coll, value, by) ==
  /\ quota.push > 0
  /\ Len(writes) < MaxInFlight
  /\ writes' = Append(writes, PushWrite(coll, nextKey, value, by))
  /\ nextKey' = nextKey + 1
  /\ quota' = [quota EXCEPT !.push = @ - 1]
  /\ newTeacher' = IF by = "teacher" THEN EmptyTeacher ELSE newTeacher
  /\ newClass' = IF by = "class" THEN EmptyClass ELSE newClass
  /\ newStudent' = IF by = "student" THEN EmptyStudent ELSE newStudent
  /\ newAnnouncement' = IF by = "announcement" THEN EmptyAnnouncement
                        ELSE newAnnouncement
  /\ showModal' = NoModal
  /\ toast' = "success"
  /\ UNCHANGED <<viewState, timetableState, store, schedules, listeners, calls,
                 mounted, unsubs>>

\* await dbPush(coll, value): the write is issued and the handler suspends.
IssuePush(coll, value, by) ==
  /\ quota.push > 0
  /\ Len(writes) < MaxInFlight
  /\ writes' = Append(writes, PushWrite(coll, nextKey, value, by))
  /\ nextKey' = nextKey + 1
  /\ quota' = [quota EXCEPT !.push = @ - 1]
  /\ UNCHANGED <<viewState, showModal, drafts, timetableState, store, schedules,
                 listeners, calls, toast, mounted, unsubs>>

\* handleAddTeacher, up to its await
HandleAddTeacher ==
  /\ Interactive
  /\ showModal = "teacher"
  /\ IF TeacherMissing THEN RejectDraft
     ELSE \E t \in Clock : IssuePush("teachers", TeacherRecord(t), "teacher")

\* handleAddClass, up to its await
HandleAddClass ==
  /\ Interactive
  /\ showModal = "class"
  /\ IF ClassMissing THEN RejectDraft
     ELSE \E t \in Clock : IssuePush("classes", ClassRecord(t), "class")

\* handleAddStudent, up to its await
HandleAddStudent ==
  /\ Interactive
  /\ showModal = "student"
  /\ IF StudentMissing THEN RejectDraft
     ELSE \E t \in Clock : IssuePush("students", StudentRecord(t), "student")

\* handleAddAnnouncement, up to its await
HandleAddAnnouncement ==
  /\ Interactive
  /\ showModal = "announcement"
  /\ IF AnnouncementMissing THEN RejectDraft
     ELSE \E t \in Clock :
            IssuePush("announcements", AnnouncementRecord(t), "announcement")

\* The materialized collection a delete button's list is drawn from.
Materialized(coll) ==
  CASE coll = "teachers" -> teachers
    [] coll = "classes" -> classes
    [] coll = "students" -> students
    [] coll = "announcements" -> announcements

\* The delete that cascades: it also removes every class that references
\* the teacher deleted and every student that references the class deleted.
HandleDeleteCascading(coll, i) ==
  /\ Interactive
  /\ i \in 1..Len(Materialized(coll))
  /\ quota.remove > 0
  /\ Len(writes) < MaxInFlight
  /\ LET id == Materialized(coll)[i].id
         refs == IF coll = "teachers"
                 THEN SelectSeq(classes, LAMBDA r : r.teacherId = id)
                 ELSE IF coll = "classes"
                 THEN SelectSeq(students, LAMBDA r : r.classId = id)
                 ELSE <<>>
         under == IF coll = "teachers" THEN "classes" ELSE "students"
     IN  writes' = Append(writes, RemoveWrite(coll, id))
                     \o [j \in 1..Len(refs) |-> RemoveWrite(under, refs[j].id)]
  /\ quota' = [quota EXCEPT !.remove = @ - 1]
  /\ UNCHANGED <<viewState, showModal, drafts, timetableState, store, schedules,
                 listeners, calls, nextKey, toast, mounted, unsubs>>

\* The delete that also drops the record from the list it was clicked in.
HandleDeleteOptimistic(coll, i) ==
  /\ Interactive
  /\ i \in 1..Len(Materialized(coll))
  /\ quota.remove > 0
  /\ Len(writes) < MaxInFlight
  /\ writes' = Append(writes, RemoveWrite(coll, Materialized(coll)[i].id))
  /\ quota' = [quota EXCEPT !.remove = @ - 1]
  /\ LET rest(seq) == SubSeq(seq, 1, i - 1) \o SubSeq(seq, i + 1, Len(seq))
     IN  /\ teachers' = IF coll = "teachers" THEN rest(teachers) ELSE teachers
         /\ classes' = IF coll = "classes" THEN rest(classes) ELSE classes
         /\ students' = IF coll = "students" THEN rest(students) ELSE students
         /\ announcements' =
              IF coll = "announcements" THEN rest(announcements) ELSE announcements
  /\ UNCHANGED <<showModal, drafts, timetableState, store, schedules,
                 listeners, calls, nextKey, toast, mounted, unsubs>>

\* onClick={() => dbRemove(`${coll}/${r.id}`)}; the promise is not awaited.
HandleDelete(coll, i) ==
  /\ Interactive
  /\ i \in 1..Len(Materialized(coll))
  /\ quota.remove > 0
  /\ Len(writes) < MaxInFlight
  /\ writes' = Append(writes, RemoveWrite(coll, Materialized(coll)[i].id))
  /\ quota' = [quota EXCEPT !.remove = @ - 1]
  /\ UNCHANGED <<viewState, showModal, drafts, timetableState, store, schedules,
                 listeners, calls, nextKey, toast, mounted, unsubs>>

\* ------------------------------------------------- writes at the store

\* The collection after the write w has taken effect.
Applied(seq, w) ==
  IF w.op = "push" THEN Append(seq, [k |-> w.k, val |-> w.val])
  ELSE WithoutKey(seq, w.path[2])

\* The position in ws of the oldest write the store has not yet seen, 0
\* when it has seen them all.
OldestSent(ws) ==
  IF \E i \in 1..Len(ws) : ws[i].phase = "sent"
  THEN CHOOSE i \in 1..Len(ws) :
         /\ ws[i].phase = "sent"
         /\ \A j \in 1..(i - 1) : ws[j].phase # "sent"
  ELSE 0

\* The oldest write the store has not yet seen takes effect in the store;
\* every listener on its collection is sent the new value if the value
\* changed.
WriteApply ==
  /\ OldestSent(writes) # 0
  /\ LET i == OldestSent(writes)
         w == writes[i]
         coll == w.path[1]
         st == [store EXCEPT ![coll] = Applied(@, w)]
     IN  /\ store' = st
         /\ listeners' = IF st = store THEN listeners
                         ELSE Emit(listeners, <<coll>>, ValueAt(st, schedules, <<coll>>))
         /\ writes' = [writes EXCEPT ![i].phase = "applied"]
  /\ UNCHANGED <<viewState, showModal, drafts, timetableState, schedules, calls,
                 nextKey, toast, mounted, unsubs, quota>>

\* The draft a handler's continuation resets, for the handler that issued w.
AfterPush(by) ==
  /\ newTeacher' = IF mounted /\ by = "teacher" THEN EmptyTeacher ELSE newTeacher
  /\ newClass' = IF mounted /\ by = "class" THEN EmptyClass ELSE newClass
  /\ newStudent' = IF mounted /\ by = "student" THEN EmptyStudent ELSE newStudent
  /\ newAnnouncement' =
       IF mounted /\ by = "announcement" THEN EmptyAnnouncement ELSE newAnnouncement
  /\ showModal' = IF mounted THEN NoModal ELSE showModal
  /\ toast' = "success"

\* The promise of the oldest write resolves.  After a push the handler
\* resumes behind its await: it resets its draft, closes the modal and
\* raises the success toast (state setters of an unmounted component do
\* nothing).  Nothing waits for a remove.
WriteResolve ==
  /\ writes # <<>>
  /\ writes[1].phase = "applied"
  /\ writes' = Tail(writes)
  /\ IF writes[1].op = "push" THEN AfterPush(writes[1].by)
     ELSE UNCHANGED <<drafts, showModal, toast>>
  /\ UNCHANGED <<viewState, timetableState, store, schedules, listeners, calls,
                 nextKey, mounted, unsubs, quota>>

\* The refusal after which the handler carries on as after a success.
WriteRejectCarryingOn ==
  /\ OldestSent(writes) # 0
  /\ LET i == OldestSent(writes)
     IN  /\ writes' = SubSeq(writes, 1, i - 1) \o SubSeq(writes, i + 1, Len(writes))
         /\ IF writes[i].op = "push" THEN AfterPush(writes[i].by)
            ELSE UNCHANGED <<drafts, showModal, toast>>
  /\ UNCHANGED <<viewState, timetableState, store, schedules, listeners, calls,
                 nextKey, mounted, unsubs, quota>>

\* The store refuses the oldest write it has not yet seen: the promise of
\* that write rejects.  The handler's await throws, nothing catches it, and
\* the rest of the handler is skipped.
WriteReject ==
  /\ OldestSent(writes) # 0
  /\ LET i == OldestSent(writes)
     IN  writes' = SubSeq(writes, 1, i - 1) \o SubSeq(writes, i + 1, Len(writes))
  /\ UNCHANGED <<viewState, showModal, drafts, timetableState, store, schedules,
                 listeners, calls, nextKey, toast, mounted, unsubs, quota>>

\* --------------------------------------------------- snapshot delivery

\* The delivery whose callback adds the snapshot's records to those the
\* collection already holds.
DeliverSnapshotMerging(l) ==
  /\ l \in DOMAIN listeners
  /\ listeners[l].queue # <<>>
  /\ LET data == Head(listeners[l].queue)
         root == listeners[l].path[1]
     IN  /\ teachers' = IF root = "teachers" THEN teachers \o Materialize(data)
                        ELSE teachers
         /\ classes' = IF root = "classes" THEN classes \o Materialize(data)
                       ELSE classes
         /\ students' = IF root = "students" THEN students \o Materialize(data)
                        ELSE students
         /\ announcements' =
              IF root = "announcements"
              THEN announcements \o MaterializeAnnouncements(data)
              ELSE announcements
         /\ timetableData' = IF root = "schedules" THEN data ELSE timetableData
         /\ timetableFrom' = IF root = "schedules" THEN l ELSE timetableFrom
  /\ listeners' = [listeners EXCEPT ![l].queue = Tail(@)]
  /\ UNCHANGED <<showModal, drafts, selectedTimetableClass, unsub, store,
                 schedules, calls, writes, nextKey, toast, mounted, unsubs, quota>>

\* The store delivers the oldest snapshot queued for listener l, and the
\* callback given to dbListen for that path runs.
DeliverSnapshot(l) ==
  /\ l \in DOMAIN listeners
  /\ listeners[l].queue # <<>>
  /\ LET data == Head(listeners[l].queue)
         root == listeners[l].path[1]
     IN  /\ teachers' = IF root = "teachers" THEN Materialize(data) ELSE teachers
         /\ classes' = IF root = "classes" THEN Materialize(data) ELSE classes
         /\ students' = IF root = "students" THEN Materialize(data) ELSE students
         /\ announcements' =
              IF root = "announcements" THEN MaterializeAnnouncements(data)
              ELSE announcements
         \* (data) => setTimetableData(data || {})
         /\ timetableData' = IF root = "schedules" THEN data ELSE timetableData
         /\ timetableFrom' = IF root = "schedules" THEN l ELSE timetableFrom
  /\ listeners' = [listeners EXCEPT ![l].queue = Tail(@)]
  /\ UNCHANGED <<showModal, drafts, selectedTimetableClass, unsub, store,
                 schedules, calls, writes, nextKey, toast, mounted, unsubs, quota>>

\* ----------------------------------------------------------- timetable

\* What the second effect reads and writes.
EffectState ==
  [listeners |-> listeners, calls |-> calls, unsub |-> unsub,
   timetableData |-> timetableData, timetableFrom |-> timetableFrom]

\* The cleanup that forgets the listener without releasing it.
RunCleanupKeeping(e) == [e EXCEPT !.unsub = 0]

\* return () => unsub(): the cleanup the effect's previous run returned, if
\* that run returned one.
RunCleanup(e) ==
  IF e.unsub = 0 THEN e
  ELSE [e EXCEPT !.listeners = Unsubscribe(@, {e.unsub}),
                 !.calls = Append(@, UnsubCall(e.unsub)),
                 !.unsub = 0]

\* The body that returns no cleanup for the listener it registers.
RunEffectNoCleanup(e, sel) ==
  IF sel = ""
  THEN [e EXCEPT !.timetableData = <<>>, !.timetableFrom = 0]
  ELSE LET path == <<"schedules", sel>>
           lid == NextListener(e.calls)
       IN  [e EXCEPT !.listeners =
                       DbListen(@, lid, path, ValueAt(store, schedules, path)),
                     !.calls = Append(@, ListenCall(lid, path))]

\* The body that leaves the timetable data alone when no class is selected.
RunEffectKeepingData(e, sel) ==
  IF sel = ""
  THEN e
  ELSE LET path == <<"schedules", sel>>
           lid == NextListener(e.calls)
       IN  [e EXCEPT !.listeners =
                       DbListen(@, lid, path, ValueAt(store, schedules, path)),
                     !.calls = Append(@, ListenCall(lid, path)),
                     !.unsub = lid]

\* The body of the second effect, the selection being sel:
\*   if (!selectedTimetableClass) { setTimetableData({}); return; }
\*   const unsub = dbListen(`schedules/${selectedTimetableClass}`, ...);
\*   return () => unsub();
RunEffect(e, sel) ==
  IF sel = ""
  THEN [e EXCEPT !.timetableData = <<>>, !.timetableFrom = 0]
  ELSE LET path == <<"schedules", sel>>
           lid == NextListener(e.calls)
       IN  [e EXCEPT !.listeners =
                       DbListen(@, lid, path, ValueAt(store, schedules, path)),
                     !.calls = Append(@, ListenCall(lid, path)),
                     !.unsub = lid]

\* onChange={(e) => setSelectedTimetableClass(e.target.value)}: the options
\* are '' and the ids of the materialized classes.  The new value commits,
\* and the second effect, which depends on it, runs again in the same task:
\* first the cleanup of its previous run, then its body.
SelectTimetableClass(v) ==
  /\ Interactive
  /\ v \in ClassOptions
  /\ v # selectedTimetableClass
  /\ quota.select > 0
  /\ selectedTimetableClass' = v
  /\ quota' = [quota EXCEPT !.select = @ - 1]
  /\ LET e == RunEffect(RunCleanup(EffectState), v)
     IN  /\ listeners' = e.listeners
         /\ calls' = e.calls
         /\ unsub' = e.unsub
         /\ timetableData' = e.timetableData
         /\ timetableFrom' = e.timetableFrom
  /\ UNCHANGED <<viewState, showModal, drafts, store, schedules, writes, nextKey,
                 toast, mounted, unsubs>>

\* The schedule mappings other clients write for a class.
ScheduleValues ==
  { <<>>,
    << <<"Monday", << [subject |-> "Math", time |-> "09:00"] >> >> >>,
    << <<"Monday", << [subject |-> "Art", time |-> "10:00"] >> >> >> }

\* Another client writes the schedule of class c; the component itself
\* never writes under schedules.  Listeners on that path are sent the value.
ScheduleWrite(c, v) ==
  /\ quota.sched > 0
  /\ c \in {Key(store["classes"][i].k) : i \in 1..Len(store["classes"])}
  /\ v # ValueAt(store, schedules, <<"schedules", c>>)
  /\ schedules' = [d \in (DOMAIN schedules) \cup {c} |->
                     IF d = c THEN v ELSE schedules[d]]
  /\ listeners' = Emit(listeners, <<"schedules", c>>, v)
  /\ quota' = [quota EXCEPT !.sched = @ - 1]
  /\ UNCHANGED <<viewState, showModal, drafts, timetableState, store, calls, writes,
                 nextKey, toast, mounted, unsubs>>

\* ------------------------------------------------------------ teardown

\* The teardown that also abandons the writes in flight.
UnmountCancelling ==
  /\ Interactive
  /\ mounted' = FALSE
  /\ LET e == RunCleanup([EffectState EXCEPT
                            !.listeners = Unsubscribe(@, unsubs),
                            !.calls = @ \o [i \in 1..4 |-> UnsubCall(i)]])
     IN  /\ listeners' = e.listeners
         /\ calls' = e.calls
         /\ unsub' = e.unsub
  /\ unsubs' = {}
  /\ writes' = <<>>
  /\ UNCHANGED <<viewState, showModal, drafts, selectedTimetableClass, timetableData,
                 timetableFrom, store, schedules, nextKey, toast, quota>>

\* The teardown that runs the cleanup of the first effect only.
UnmountLeavingSchedule ==
  /\ Interactive
  /\ mounted' = FALSE
  /\ listeners' = Unsubscribe(listeners, unsubs)
  /\ calls' = calls \o [i \in 1..4 |-> UnsubCall(i)]
  /\ unsubs' = {}
  /\ UNCHANGED <<viewState, showModal, drafts, timetableState, store, schedules,
                 writes, nextKey, toast, quota>>

\* The component unmounts: the cleanups of both effects run, in the order
\* of the effects: unsubs.forEach(u => u()), then unsub().
Unmount ==
  /\ Interactive
  /\ mounted' = FALSE
  /\ LET e == RunCleanup([EffectState EXCEPT
                            !.listeners = Unsubscribe(@, unsubs),
                            !.calls = @ \o [i \in 1..4 |-> UnsubCall(i)]])
     IN  /\ listeners' = e.listeners
         /\ calls' = e.calls
         /\ unsub' = e.unsub
  /\ unsubs' = {}
  /\ UNCHANGED <<viewState, showModal, drafts, selectedTimetableClass, timetableData,
                 timetableFrom, store, schedules, writes, nextKey, toast, quota>>

\* ------------------------------------------------------- derived views

\* {classes.length > 0 ? Math.round(students.length / classes.length) : 0}
AvgClassSize ==
  IF Len(classes) > 0 THEN MathRoundDiv(Len(students), Len(classes)) ELSE 0

\* The property names every plain object inherits from Object.prototype,
\* and what the inherited value turns into when a number is added to it.
ObjectPrototypeKeys ==
  {"constructor", "__proto__", "toString", "valueOf", "hasOwnProperty",
   "isPrototypeOf", "propertyIsEnumerable", "toLocaleString"}

InheritedAsString(k) ==
  IF k = "__proto__" THEN "[object Object]"
  ELSE IF k = "constructor" THEN "function Object() { [native code] }"
  ELSE "function " \o k \o "() { [native code] }"

\* A JavaScript number and a JavaScript string as values of one object.
Num(n) == [type |-> "number", n |-> n, s |-> ""]
Str(x) == [type |-> "string", n |-> 0, s |-> x]

\* The position of the own property k of the object acc, a sequence of
\* <<key, value>> in insertion order; 0 when acc has no such own property.
OwnIndex(acc, k) ==
  IF \E i \in 1..Len(acc) : acc[i][1] = k
  THEN CHOOSE i \in 1..Len(acc) : acc[i][1] = k
  ELSE 0

\* (acc[k] || 0) + 1: one more than the number acc holds at k, 1 when it
\* holds nothing there, and a string when what it holds or inherits there
\* is a string, a function or an object.
Incremented(acc, k) ==
  LET i == OwnIndex(acc, k)
  IN  IF i # 0
      THEN IF acc[i][2].type = "number" THEN Num(acc[i][2].n + 1)
           ELSE Str(acc[i][2].s \o "1")
      ELSE IF k \in ObjectPrototypeKeys THEN Str(InheritedAsString(k) \o "1")
      ELSE Num(1)

\* acc[k] = v: the own property is set, or created behind the others; an
\* assignment to __proto__ of a value that is no object is ignored.
Assigned(acc, k, v) ==
  LET i == OwnIndex(acc, k)
  IN  IF k = "__proto__" THEN acc
      ELSE IF i # 0 THEN [acc EXCEPT ![i] = <<k, v>>]
      ELSE Append(acc, <<k, v>>)

\* teachers.reduce((acc, teacher) => {
\*   acc[teacher.subject] = (acc[teacher.subject] || 0) + 1; return acc; }, {})
RECURSIVE CountBySubject(_)
CountBySubject(seq) ==
  IF seq = <<>> THEN <<>>
  ELSE LET acc == CountBySubject(SubSeq(seq, 1, Len(seq) - 1))
           k == seq[Len(seq)].subject
       IN  Assigned(acc, k, Incremented(acc, k))

\* Object.entries(...).map(([name, value]) => ({ name, value }))
TeachersBySubject ==
  LET acc == CountBySubject(teachers)
  IN  [i \in 1..Len(acc) |-> [name |-> acc[i][1], value |-> acc[i][2]]]

\* The ratio that drops the fractional part.
StudentTeacherRatioTruncating ==
  IF Len(teachers) > 0 THEN Len(students) \div Len(teachers) ELSE 0

\* {teachers.length > 0 ? Math.round(students.length / teachers.length) : 0}:1
StudentTeacherRatio ==
  IF Len(teachers) > 0 THEN MathRoundDiv(Len(students), Len(teachers)) ELSE 0

\* {classes.length * 30}
TotalCapacity == Len(classes) * 30

\* classes.map(cls => ({ name: `Grade ${cls.grade}`,
\*   count: students.filter(s => s.classId === cls.id).length }))
\*   .sort((a, b) => a.name.localeCompare(b.name))
StudentsByGrade ==
  SortByName([i \in 1..Len(classes) |->
                [name |-> "Grade " \o classes[i].grade,
                 count |-> Cardinality({j \in 1..Len(students) :
                                          students[j].classId = classes[i].id})]])

\* ------------------------------------------------------ specifications

\* A teacher, class or student record as an earlier session pushed it.
SeedTeacher(name) ==
  [name |-> name, username |-> "x", password |-> "x", subject |-> "x",
   createdAt |-> ToISOString(0)]

SeedClass(name, teacherId, teacherName) ==
  [name |-> name, grade |-> "x", teacherId |-> teacherId,
   teacherName |-> teacherName, createdAt |-> ToISOString(0)]

\* The form and command layer: the component mounted over a store that
\* holds two teachers and a class of the first, the first snapshots seen.
FormsStore ==
  [c \in Collections |->
     CASE c = "teachers" ->
            << [k |-> 1, val |-> SeedTeacher("Ann")],
               [k |-> 2, val |-> SeedTeacher("Bob")] >>
       [] c = "classes" -> << [k |-> 3, val |-> SeedClass("1A", Key(1), "Ann")] >>
       [] OTHER -> <<>>]

\* What a run may do: so many pushes, removes, selection changes and
\* schedule writes by other clients.
Quota(push, remove, select, sched) ==
  [push |-> push, remove |-> remove, select |-> select, sched |-> sched]

InitForms == MountedOver(FormsStore, <<>>, TRUE, Quota(MaxPush, 0, 0, 0))

InitCopy == MountedOver(FormsStore, <<>>, TRUE, Quota(MaxPush, MaxRemove, 0, 0))

InitDelete == MountedOver(FormsStore, <<>>, TRUE, Quota(0, MaxDelete, 0, 0))

\* The four forms and their submit handlers against the store.
NextForms ==
  \/ \E m \in Modals : OpenModal(m)
  \/ CloseModal
  \/ \E f \in DOMAIN newTeacher : \E v \in TeacherInputs(f) : SetTeacherField(f, v)
  \/ \E f \in DOMAIN newClass : \E v \in ClassInputs(f) : SetClassField(f, v)
  \/ \E f \in DOMAIN newStudent : \E v \in StudentInputs(f) : SetStudentField(f, v)
  \/ \E f \in DOMAIN newAnnouncement :
       \E v \in AnnouncementInputs(f) : SetAnnouncementField(f, v)
  \/ HandleAddTeacher
  \/ HandleAddClass
  \/ HandleAddStudent
  \/ HandleAddAnnouncement
  \/ WriteApply
  \/ WriteResolve
  \/ WriteReject
  \/ \E l \in DOMAIN listeners : DeliverSnapshot(l)

SpecForms == InitForms /\ [][NextForms]_vars

\* The class and student forms, whose records copy a name out of the view
\* state, next to the delete buttons that change that view state.
NextCopy ==
  \/ \E m \in {"class", "student"} : OpenModal(m)
  \/ CloseModal
  \/ \E f \in DOMAIN newClass : \E v \in ClassInputs(f) : SetClassField(f, v)
  \/ \E f \in DOMAIN newStudent : \E v \in StudentInputs(f) : SetStudentField(f, v)
  \/ HandleAddClass
  \/ HandleAddStudent
  \/ \E coll \in Collections : \E i \in 1..Len(Materialized(coll)) : HandleDelete(coll, i)
  \/ WriteApply
  \/ WriteResolve
  \/ WriteReject
  \/ \E l \in DOMAIN listeners : DeliverSnapshot(l)

SpecCopy == InitCopy /\ [][NextCopy]_vars

\* The class form next to the delete buttons, the store going on
\* delivering: a snapshot queued for a listener of the mounted component
\* is delivered in the end.
NextLive ==
  \/ OpenModal("class")
  \/ \E f \in DOMAIN newClass : \E v \in ClassInputs(f) : SetClassField(f, v)
  \/ HandleAddClass
  \/ \E coll \in Collections : \E i \in 1..Len(Materialized(coll)) : HandleDelete(coll, i)
  \/ WriteApply
  \/ WriteResolve
  \/ WriteReject
  \/ \E l \in DOMAIN listeners : DeliverSnapshot(l)

SpecLive ==
  /\ InitCopy
  /\ [][NextLive]_vars
  /\ WF_vars(\E l \in DOMAIN listeners : DeliverSnapshot(l))

\* The delete buttons alone.
NextDelete ==
  \/ \E coll \in Collections : \E i \in 1..Len(Materialized(coll)) : HandleDelete(coll, i)
  \/ WriteApply
  \/ WriteResolve
  \/ WriteReject
  \/ \E l \in DOMAIN listeners : DeliverSnapshot(l)

SpecDelete == InitDelete /\ [][NextDelete]_vars

\* The read side: the component mounts on a store that earlier sessions
\* filled, and the first snapshot of each of its four listeners arrives.
SeedStudent(classId, className) ==
  [name |-> "x", username |-> "x", password |-> "x", classId |-> classId,
   className |-> className, createdAt |-> ToISOString(0)]

SeedAnnouncement(t) ==
  [title |-> "x", content |-> "x", priority |-> "normal", author |-> "Principal",
   createdAt |-> ToISOString(t)]

\* A store of nT teachers, nC classes taught by them in turn, nS students
\* enrolled in the classes in turn, and one announcement per entry of
\* stamps, created at that time; the keys are in the order of creation.
ReadStore(nT, nC, nS, stamps) ==
  [c \in Collections |->
     CASE c = "teachers" ->
            [i \in 1..nT |->
               [k |-> i, val |-> SeedTeacher(IF i % 2 = 1 THEN "Ann" ELSE "Bob")]]
       [] c = "classes" ->
            [i \in 1..nC |->
               [k |-> nT + i,
                val |-> IF nT = 0 THEN SeedClass("1A", Key(0), "Unassigned")
                        ELSE SeedClass("1A", Key(1 + ((i - 1) % nT)),
                                       IF (i - 1) % nT = 0 THEN "Ann" ELSE "Bob")]]
       [] c = "students" ->
            [i \in 1..nS |->
               [k |-> nT + nC + i,
                val |-> IF nC = 0 THEN SeedStudent(Key(0), "Unassigned")
                        ELSE SeedStudent(Key(nT + 1 + ((i - 1) % nC)), "1A")]]
       [] c = "announcements" ->
            [i \in 1..Len(stamps) |->
               [k |-> nT + nC + nS + i, val |-> SeedAnnouncement(stamps[i])]]]

StampSeqs == UNION {[1..n -> 0..MaxStamp] : n \in 0..MaxAnnouncements}

InitRead ==
  \E nT \in 0..MaxTeachers, nC \in 0..MaxClasses, nS \in 0..MaxStudents,
     stamps \in StampSeqs :
    MountedOver(ReadStore(nT, nC, nS, stamps), <<>>, FALSE, Quota(0, 0, 0, 0))

NextRead == \E l \in DOMAIN listeners : DeliverSnapshot(l)

SpecRead == InitRead /\ [][NextRead]_vars

\* The reports page: a store of one class per entry of grades, of that
\* grade, and one student per entry of refs, enrolled in the class at that
\* position of the store or, for 0, in a class the store does not hold.
ReportStore(grades, refs) ==
  [c \in Collections |->
     CASE c = "classes" ->
            [i \in 1..Len(grades) |->
               [k |-> i,
                val |-> Spread(SeedClass("1A", Key(0), "Unassigned"),
                               [grade |-> grades[i]])]]
       [] c = "students" ->
            [i \in 1..Len(refs) |->
               [k |-> Len(grades) + i,
                val |-> SeedStudent(Key(refs[i]),
                                    IF refs[i] = 0 THEN "Unassigned" ELSE "1A")]]
       [] OTHER -> <<>>]

InitReport ==
  \E nC \in 0..MaxReportClasses, nS \in 0..MaxReportStudents :
    \E grades \in [1..nC -> Grades], refs \in [1..nS -> 0..nC] :
      MountedOver(ReportStore(grades, refs), <<>>, FALSE, Quota(0, 0, 0, 0))

NextReport ==
  \E l \in DOMAIN listeners :
    /\ listeners[l].path \in {<<"classes">>, <<"students">>}
    /\ DeliverSnapshot(l)

SpecReport == InitReport /\ [][NextReport]_vars

\* The timetable selector: the component mounted over a store that holds
\* two classes, each with a schedule of its own, the first snapshots seen.
TimetableStore ==
  [c \in Collections |->
     CASE c = "teachers" -> << [k |-> 1, val |-> SeedTeacher("Ann")] >>
       [] c = "classes" ->
            << [k |-> 2, val |-> SeedClass("1A", Key(1), "Ann")],
               [k |-> 3, val |-> SeedClass("1B", Key(1), "Ann")] >>
       [] OTHER -> <<>>]

TimetableSchedules ==
  [c \in {Key(2), Key(3)} |->
     IF c = Key(2)
     THEN << <<"Monday", << [subject |-> "Math", time |-> "09:00"] >> >> >>
     ELSE << <<"Friday", << [subject |-> "Art", time |-> "10:00"] >> >> >>]

InitTimetable ==
  MountedOver(TimetableStore, TimetableSchedules, TRUE,
              Quota(0, 0, MaxSelect, MaxSchedWrite))

NextTimetable ==
  \/ \E v \in ClassOptions : SelectTimetableClass(v)
  \/ \E c \in DOMAIN TimetableSchedules : \E v \in ScheduleValues : ScheduleWrite(c, v)
  \/ \E l \in DOMAIN listeners : DeliverSnapshot(l)
  \/ Unmount

SpecTimetable == InitTimetable /\ [][NextTimetable]_vars

\* Everything that names a path of the store: the class and student forms,
\* the delete buttons and the timetable selector over the timetable's store.
InitPaths ==
  MountedOver(TimetableStore, TimetableSchedules, TRUE,
              Quota(MaxPush, MaxRemove, MaxPathSelect, 0))

NextPaths ==
  \/ NextCopy
  \/ \E v \in ClassOptions : SelectTimetableClass(v)

SpecPaths == InitPaths /\ [][NextPaths]_vars

\* The class form and the delete buttons of a component that may be
\* unmounted at any moment.
NextTeardown ==
  \/ NextLive
  \/ Unmount

SpecTeardown == InitCopy /\ [][NextTeardown]_vars

\* The teacher form with its Save button, which may be clicked up to
\* MaxResubmit times.
InitResubmit == MountedOver(FormsStore, <<>>, TRUE, Quota(MaxResubmit, 0, 0, 0))

NextResubmit ==
  \/ OpenModal("teacher")
  \/ CloseModal
  \/ \E f \in DOMAIN newTeacher : \E v \in TeacherInputs(f) : SetTeacherField(f, v)
  \/ HandleAddTeacher
  \/ WriteApply
  \/ WriteResolve
  \/ WriteReject
  \/ \E l \in DOMAIN listeners : DeliverSnapshot(l)

SpecResubmit == InitResubmit /\ [][NextResubmit]_vars

\* The reports page over teachers of any subject an administrator can
\* type into the subject field: up to MaxSubjectTeachers teachers.
Subjects == {"Math", "Art", "constructor"}

SubjectStore(subjects) ==
  [c \in Collections |->
     IF c = "teachers"
     THEN [i \in 1..Len(subjects) |->
             [k |-> i, val |-> Spread(SeedTeacher("Ann"), [subject |-> subjects[i]])]]
     ELSE <<>>]

InitSubjects ==
  \E n \in 0..MaxSubjectTeachers : \E subjects \in [1..n -> Subjects] :
    MountedOver(SubjectStore(subjects), <<>>, FALSE, Quota(0, 0, 0, 0))

NextSubjects == \E l \in DOMAIN listeners : DeliverSnapshot(l)

SpecSubjects == InitSubjects /\ [][NextSubjects]_vars

\* The delete buttons over a store of records that reference each other: a
\* teacher, a class of that teacher and a student of that class.
ReferencingStore ==
  [c \in Collections |->
     CASE c = "teachers" -> << [k |-> 1, val |-> SeedTeacher("Ann")] >>
       [] c = "classes" -> << [k |-> 2, val |-> SeedClass("1A", Key(1), "Ann")] >>
       [] c = "students" -> << [k |-> 3, val |-> SeedStudent(Key(2), "1A")] >>
       [] OTHER -> <<>>]

InitCascade == MountedOver(ReferencingStore, <<>>, TRUE, Quota(0, MaxDelete, 0, 0))

SpecCascade == InitCascade /\ [][NextDelete]_vars

\* The read side over a store that other clients filled: up to
\* MaxForeign teacher records whose bodies may carry an id field of their
\* own, equal to their key, to another record's key or to no key.
ForeignBodies ==
  {SeedTeacher("Ann")}
    \cup {Spread(SeedTeacher("Ann"), [id |-> v]) : v \in {Key(1), Key(2), "t"}}

ForeignStore(bodies) ==
  [c \in Collections |->
     IF c = "teachers" THEN [i \in 1..Len(bodies) |-> [k |-> i, val |-> bodies[i]]]
     ELSE <<>>]

InitForeign ==
  \E n \in 0..MaxForeign : \E bodies \in [1..n -> ForeignBodies] :
    MountedOver(ForeignStore(bodies), <<>>, FALSE, Quota(0, 0, 0, 0))

NextForeign == \E l \in DOMAIN listeners : DeliverSnapshot(l)

SpecForeign == InitForeign /\ [][NextForeign]_vars

\* ---------------------------------------------------------------- claims

\* The fields each form requires (spec.md, section 3 and section 4.2).
Required(m) ==
  CASE m = "teacher" -> {"name", "username", "password", "subject"}
    [] m = "class" -> {"name", "grade", "teacherId"}
    [] m = "student" -> {"name", "username", "password", "classId"}
    [] m = "announcement" -> {"title", "content"}

CollectionOf(m) ==
  CASE m = "teacher" -> "teachers"
    [] m = "class" -> "classes"
    [] m = "student" -> "students"
    [] m = "announcement" -> "announcements"

Complete(m) == \A f \in Required(m) : Draft(m)[f] # ""

\* This step issues exactly one push, to the collection of form m, of a
\* record that carries every required field with the draft's value.
OnePushOf(m) ==
  /\ Len(writes') = Len(writes) + 1
  /\ SubSeq(writes', 1, Len(writes)) = writes
  /\ LET w == writes'[Len(writes')]
     IN  /\ w.op = "push"
         /\ w.path = <<CollectionOf(m)>>
         /\ \A f \in Required(m) : f \in DOMAIN w.val /\ w.val[f] = Draft(m)[f]

\* A step of handler H on form m issues one push when the draft is
\* complete and none otherwise.
PushesOnceOrNever(H, m) ==
  H => IF Complete(m) THEN OnePushOf(m) ELSE writes' = writes

\* C1: each of the four submit handlers issues exactly one push of a record
\* carrying every required field with the draft's value when all required
\* fields are non-empty, and no push when a required field is empty.
C1_SubmitPushesOnceOrNever ==
  [][ /\ PushesOnceOrNever(HandleAddTeacher, "teacher")
      /\ PushesOnceOrNever(HandleAddClass, "class")
      /\ PushesOnceOrNever(HandleAddStudent, "student")
      /\ PushesOnceOrNever(HandleAddAnnouncement, "announcement") ]_vars

\* A push of a complete student draft is in flight after a submit was refused.
C1_Witness ==
  /\ toast = "error"
  /\ \E i \in 1..Len(writes) :
       /\ writes[i].op = "push"
       /\ writes[i].path = <<"students">>
       /\ \A f \in Required("student") : writes[i].val[f] # ""

\* A step of handler H on an incomplete draft of form m signals the error
\* and changes nothing else.
RefusesQuietly(H, m) ==
  (H /\ ~Complete(m)) =>
     /\ toast' = "error"
     /\ UNCHANGED <<writes, store, listeners, drafts, showModal, viewState>>

\* C2: a submit that fails validation signals an error and changes nothing
\* else: no write, the draft and the open modal stay, the four
\* materialized collections stay.
C2_RefusedSubmitChangesNothing ==
  [][ /\ RefusesQuietly(HandleAddTeacher, "teacher")
      /\ RefusesQuietly(HandleAddClass, "class")
      /\ RefusesQuietly(HandleAddStudent, "student")
      /\ RefusesQuietly(HandleAddAnnouncement, "announcement") ]_vars

\* An error is shown over an open form whose draft is partly filled in.
C2_Witness ==
  /\ toast = "error"
  /\ showModal = "teacher"
  /\ newTeacher.name # ""
  /\ newTeacher.password = ""
  /\ writes = <<>>

\* The creation time of a materialized record.
CreatedAt(r) == DateGetTime(r.createdAt)

\* The position of the record with the given id in seq, 0 when it has none.
PositionOf(seq, id) ==
  IF \E i \in 1..Len(seq) : seq[i].id = id
  THEN CHOOSE i \in 1..Len(seq) : seq[i].id = id
  ELSE 0

\* This step delivers a snapshot to the announcements listener.
AnnouncementsDelivered ==
  /\ 4 \in DOMAIN listeners
  /\ listeners[4].queue # <<>>
  /\ listeners'[4].queue = Tail(listeners[4].queue)

\* seq holds the records of the payload data, newest first, records of
\* equal creation time in the order the payload has them.
NewestFirstOf(seq, data) ==
  /\ Len(seq) = Len(data)
  /\ \A i \in 1..Len(data) :
       /\ PositionOf(seq, data[i][1]) # 0
       /\ seq[PositionOf(seq, data[i][1])] = Spread([id |-> data[i][1]], data[i][2])
  /\ \A i, j \in 1..Len(seq) : i < j => CreatedAt(seq[i]) >= CreatedAt(seq[j])
  /\ \A i, j \in 1..Len(data) :
       (i < j /\ DateGetTime(data[i][2].createdAt) = DateGetTime(data[j][2].createdAt))
         => PositionOf(seq, data[i][1]) < PositionOf(seq, data[j][1])

\* C3: after every snapshot delivered to the announcements subscription the
\* materialized announcements are the snapshot's records sorted by createdAt
\* descending, records of equal createdAt in the snapshot's order.
C3_AnnouncementsNewestFirstStable ==
  [][ AnnouncementsDelivered =>
        NewestFirstOf(announcements', Head(listeners[4].queue)) ]_vars

\* Three announcements are materialized whose order is not the store's: the
\* newest is not the first of the store, and two of equal time follow it.
C3_Witness ==
  /\ Len(announcements) = 3
  /\ announcements[1].id # Key(store["announcements"][1].k)
  /\ CreatedAt(announcements[1]) > CreatedAt(announcements[2])
  /\ CreatedAt(announcements[2]) = CreatedAt(announcements[3])

\* C8: the displayed average class size is 0 when there is no class and
\* otherwise students / classes rounded to the nearest integer, an exact
\* half rounded up: floor((2s + c) / (2c)).
C8_AvgClassSizeRoundsHalfUp ==
  LET s == Len(students)
      c == Len(classes)
  IN  AvgClassSize = IF c = 0 THEN 0 ELSE (2 * s + c) \div (2 * c)

\* Five students in two classes are materialized: 2.5, displayed as 3.
C8_Witness ==
  /\ Len(students) = 5
  /\ Len(classes) = 2
  /\ AvgClassSize = 3

\* The active listeners on a schedule path.
ScheduleListeners == {l \in DOMAIN listeners : listeners[l].path[1] = "schedules"}

\* The i-th call opened a listener on a schedule path.
OpensSchedule(i) == calls[i].fn = "dbListen" /\ calls[i].path[1] = "schedules"

\* C4: the subscription to the previously selected class's schedule is
\* released before the subscription to the newly selected class's schedule
\* is opened, and at most one schedule subscription is active at any time.
C4_OneScheduleSubscription ==
  /\ Cardinality(ScheduleListeners) <= 1
  /\ \A i, j \in 1..Len(calls) :
       (i < j /\ OpensSchedule(i) /\ OpensSchedule(j)) =>
          \E k \in (i + 1)..(j - 1) : calls[k] = UnsubCall(calls[i].lid)

\* The selection went from one class straight to another: a schedule
\* listener was opened, released, and one on another path opened, which is
\* the one active now.
C4_Witness ==
  \E i \in 1..(Len(calls) - 2) :
    /\ OpensSchedule(i)
    /\ calls[i + 1] = UnsubCall(calls[i].lid)
    /\ OpensSchedule(i + 2)
    /\ calls[i + 2].path # calls[i].path
    /\ ScheduleListeners = {calls[i + 2].lid}

\* This step delivers a snapshot to the schedule listener l.
ScheduleDelivered(l) ==
  /\ l \in ScheduleListeners
  /\ listeners[l].queue # <<>>
  /\ l \in DOMAIN listeners'
  /\ listeners'[l].queue = Tail(listeners[l].queue)

\* C5: a snapshot is applied to the timetable data only when it comes from
\* the subscription opened for the class selected now, the one opened last;
\* none comes from the subscription of a class selected before.
C5_NoSnapshotFromOldSubscription ==
  [][ \A l \in DOMAIN listeners :
        ScheduleDelivered(l) =>
          /\ listeners[l].path = <<"schedules", selectedTimetableClass>>
          /\ l = NextListener(calls) - 1
          /\ timetableData' = Head(listeners[l].queue) ]_vars

\* The second class is selected and watched, the timetable data still come
\* from the listener of the first, and the store holds a newer schedule of
\* the first class than the one shown: that snapshot was not applied.
C5_Witness ==
  /\ selectedTimetableClass = Key(3)
  /\ ScheduleListeners = {unsub}
  /\ timetableFrom # 0
  /\ timetableFrom # unsub
  /\ \E i \in 1..Len(calls) :
       calls[i] = ListenCall(timetableFrom, <<"schedules", Key(2)>>)
  /\ ValueAt(store, schedules, <<"schedules", Key(2)>>) # timetableData

\* C6: whenever no timetable class is selected the timetable data is the
\* empty mapping and no schedule subscription is active.
C6_NoSelectionNoData ==
  selectedTimetableClass = "" =>
    /\ timetableData = <<>>
    /\ ScheduleListeners = {}
    /\ unsub = 0

\* No class is selected after one had been selected and its listener
\* released.
C6_Witness ==
  /\ mounted
  /\ selectedTimetableClass = ""
  /\ \E i \in 1..(Len(calls) - 1) :
       OpensSchedule(i) /\ calls[i + 1] = UnsubCall(calls[i].lid)
  /\ ValueAt(store, schedules, <<"schedules", Key(2)>>) # <<>>

\* Nothing is on its way: no write in flight, no snapshot undelivered.
Quiescent ==
  /\ writes = <<>>
  /\ \A l \in DOMAIN listeners : listeners[l].queue = <<>>

\* The keys of the records the store holds in a collection.
StoredKeys(coll) == {Key(store[coll][i].k) : i \in 1..Len(store[coll])}

\* The collection seq without the record at key id, the others in place.
Without(seq, id) ==
  LET F[n \in 0..Len(seq)] ==
        IF n = 0 THEN <<>>
        ELSE IF Key(seq[n].k) = id THEN F[n - 1] ELSE Append(F[n - 1], seq[n])
  IN  F[Len(seq)]

\* This step is the store taking in the remove at position i of the queue.
RemoveApplied(i) ==
  /\ i \in 1..Len(writes)
  /\ writes[i].op = "remove"
  /\ writes[i].phase = "sent"
  /\ Len(writes') = Len(writes)
  /\ writes'[i].phase = "applied"

\* C7: a delete click issues one remove on the path of the record clicked;
\* a remove leaves its collection without that record and every other
\* record untouched; a remove of a record already absent, as the second of
\* two removes of one path is, changes nothing and raises no error; and
\* once all snapshots are delivered the materialized collections are the
\* store's.
C7_RemoveTwiceAsOnce ==
  /\ [][ /\ \A coll \in Collections : \A i \in 1..Len(Materialized(coll)) :
              HandleDelete(coll, i) =>
                /\ Len(writes') = Len(writes) + 1
                /\ writes'[Len(writes')].op = "remove"
                /\ writes'[Len(writes')].path = <<coll, Materialized(coll)[i].id>>
                /\ UNCHANGED <<store, toast>>
         /\ \A i \in 1..Len(writes) :
              RemoveApplied(i) =>
                LET coll == writes[i].path[1]
                    id == writes[i].path[2]
                IN  /\ store' = [store EXCEPT ![coll] = Without(@, id)]
                    /\ toast' = toast
                    /\ id \notin StoredKeys(coll) =>
                         UNCHANGED <<store, listeners, viewState>> ]_vars
  /\ [](Quiescent =>
          /\ teachers = Materialize(ValueAt(store, schedules, <<"teachers">>))
          /\ classes = Materialize(ValueAt(store, schedules, <<"classes">>))
          /\ students = Materialize(ValueAt(store, schedules, <<"students">>))
          /\ announcements =
               MaterializeAnnouncements(ValueAt(store, schedules, <<"announcements">>)))

\* Two removes of the path of the first teacher have both been taken in by
\* the store, which holds the second teacher and no other.
C7_Witness ==
  /\ Len(writes) = 2
  /\ \A i \in 1..2 :
       /\ writes[i].op = "remove"
       /\ writes[i].path = <<"teachers", Key(1)>>
       /\ writes[i].phase = "applied"
  /\ StoredKeys("teachers") = {Key(2)}

\* Some record of the materialized collection seq has the given id.
Matched(seq, id) == \E i \in 1..Len(seq) : seq[i].id = id

\* The record of the push this step has queued last.
Pushed == writes'[Len(writes')].val

\* C9: a submit of a complete class draft whose teacherId matches no
\* materialized teacher issues its one push, with teacherName "Unassigned",
\* and signals no error; likewise a complete student draft whose classId
\* matches no materialized class is pushed with className "Unassigned".
C9_UnmatchedReferenceIsUnassigned ==
  [][ /\ (HandleAddClass /\ Complete("class")
            /\ ~Matched(teachers, newClass.teacherId)) =>
           /\ OnePushOf("class")
           /\ Pushed.teacherName = "Unassigned"
           /\ toast' = toast
      /\ (HandleAddStudent /\ Complete("student")
            /\ ~Matched(classes, newStudent.classId)) =>
           /\ OnePushOf("student")
           /\ Pushed.className = "Unassigned"
           /\ toast' = toast ]_vars

\* The teacher a class draft named was deleted and the snapshot without it
\* delivered; the class was then submitted and its push, in flight, names
\* that teacher's id and the teacher "Unassigned".
C9_Witness ==
  /\ Len(writes) > 0
  /\ LET w == writes[Len(writes)]
     IN  /\ w.op = "push"
         /\ w.path = <<"classes">>
         /\ w.val.teacherId # ""
         /\ ~Matched(teachers, w.val.teacherId)
         /\ w.val.teacherName = "Unassigned"

\* C10: the record a submit of a complete class draft pushes carries as
\* teacherName the name of the materialized teacher whose id is the draft's
\* teacherId, when there is one; and a student record carries as className
\* the name of the materialized class whose id is the draft's classId.
C10_CopiedNameIsTheReferencedName ==
  [][ /\ (HandleAddClass /\ Complete("class")) =>
           \A i \in 1..Len(teachers) :
             teachers[i].id = newClass.teacherId =>
               /\ OnePushOf("class")
               /\ Pushed.teacherId = teachers[i].id
               /\ Pushed.teacherName = teachers[i].name
      /\ (HandleAddStudent /\ Complete("student")) =>
           \A i \in 1..Len(classes) :
             classes[i].id = newStudent.classId =>
               /\ OnePushOf("student")
               /\ Pushed.classId = classes[i].id
               /\ Pushed.className = classes[i].name ]_vars

\* A class push in flight names the second teacher listed, by id and by
\* name, and that teacher is still materialized.
C10_Witness ==
  /\ Len(teachers) = 2
  /\ Len(writes) > 0
  /\ LET w == writes[Len(writes)]
     IN  /\ w.op = "push"
         /\ w.path = <<"classes">>
         /\ w.val.teacherId = teachers[2].id
         /\ w.val.teacherName = teachers[2].name

\* The ranks x sort no later than the ranks y, position by position.
RECURSIVE LexLeq(_, _)
LexLeq(x, y) ==
  IF x = <<>> THEN TRUE
  ELSE IF y = <<>> THEN FALSE
  ELSE IF Head(x) # Head(y) THEN Head(x) < Head(y)
  ELSE LexLeq(Tail(x), Tail(y))

\* The number of materialized students enrolled in the class with this id.
Enrolled(id) == Cardinality({j \in 1..Len(students) : students[j].classId = id})

RECURSIVE SumOfCounts(_)
SumOfCounts(r) == IF r = <<>> THEN 0 ELSE Head(r).count + SumOfCounts(Tail(r))

\* C11: the group-by-grade report has one entry per materialized class,
\* labelled by the class's grade and counting the materialized students
\* whose classId is the class's id; its labels ascend lexicographically;
\* and when every student references a materialized class the counts sum
\* to the number of students.
C11_StudentsByGradeReport ==
  LET r == StudentsByGrade
  IN  /\ Len(r) = Len(classes)
      /\ \E p \in [1..Len(r) -> 1..Len(r)] :
           /\ \A i, j \in 1..Len(r) : p[i] = p[j] => i = j
           /\ \A i \in 1..Len(r) :
                /\ r[i].name = "Grade " \o classes[p[i]].grade
                /\ r[i].count = Enrolled(classes[p[i]].id)
      /\ \A i, j \in 1..Len(r) : i < j => LexLeq(Ranks(r[i].name), Ranks(r[j].name))
      /\ (\A j \in 1..Len(students) : Matched(classes, students[j].classId)) =>
           SumOfCounts(r) = Len(students)

\* Classes of grades 2, 10 and 1 are listed in that order with two, no and
\* one student; the report lists Grade 1, Grade 10, Grade 2.
C11_Witness ==
  /\ Len(classes) = 3
  /\ classes[1].grade = "2" /\ classes[2].grade = "10" /\ classes[3].grade = "1"
  /\ Len(students) = 3
  /\ StudentsByGrade = << [name |-> "Grade 1", count |-> 1],
                          [name |-> "Grade 10", count |-> 0],
                          [name |-> "Grade 2", count |-> 2] >>

\* This step is the failure of the push at position i of the queue: the
\* store had not taken it in, and it leaves the queue.
PushFails(i) ==
  /\ i \in 1..Len(writes)
  /\ writes[i].op = "push"
  /\ writes[i].phase = "sent"
  /\ Len(writes') = Len(writes) - 1
  /\ writes' = SubSeq(writes, 1, i - 1) \o SubSeq(writes, i + 1, Len(writes))

\* C12: when a push issued by a submit handler fails, the user is shown a
\* failure notification.
C12_PushFailureIsNotified ==
  [][ \A i \in 1..Len(writes) : PushFails(i) => toast' = "error" ]_vars

\* C13: when a push issued by a submit handler fails, no write is issued
\* in its place, no notification is raised, of success or otherwise (the
\* one shown stays), and the four materialized collections stay as they
\* were.
C13_FailedPushIsNotRetried ==
  [][ \A i \in 1..Len(writes) :
        PushFails(i) =>
          /\ \A j \in 1..Len(writes') : \E k \in 1..Len(writes) : writes'[j] = writes[k]
          /\ store' = store
          /\ toast' = toast
          /\ UNCHANGED <<teachers, classes, students, announcements>> ]_vars

\* The one push of the run has failed: the key it was to take is in no
\* collection of the store, nothing is in flight, and the teacher form is
\* still open over its complete draft with no notification shown.
C13_Witness ==
  /\ quota.push = 0
  /\ writes = <<>>
  /\ \A coll \in Collections : \A i \in 1..Len(store[coll]) : store[coll][i].k < nextKey - 1
  /\ showModal = "teacher"
  /\ Complete("teacher")
  /\ toast = "none"

\* This step changes the materialized collection coll.
Changes(coll) ==
  CASE coll = "teachers" -> teachers' # teachers
    [] coll = "classes" -> classes' # classes
    [] coll = "students" -> students' # students
    [] coll = "announcements" -> announcements' # announcements

\* This step is the delivery of the oldest snapshot queued for listener l.
Delivers(l) ==
  /\ l \in DOMAIN listeners
  /\ l \in DOMAIN listeners'
  /\ listeners[l].queue # <<>>
  /\ listeners'[l].queue = Tail(listeners[l].queue)

\* C14: a materialized collection changes only in a step that delivers a
\* snapshot to the listener on that collection's own path; a delivery to
\* one collection's listener leaves the other three as they were; and no
\* step of a submit handler, of a delete button or of a write in flight
\* changes any of the four.
C14_OnlySnapshotsWriteTheView ==
  [][ /\ \A coll \in Collections :
           Changes(coll) =>
             \E l \in DOMAIN listeners :
               listeners[l].path = <<coll>> /\ Delivers(l)
      /\ \A l \in DOMAIN listeners :
           Delivers(l) =>
             \A coll \in Collections : listeners[l].path # <<coll>> => ~Changes(coll)
      /\ ( \/ HandleAddTeacher \/ HandleAddClass \/ HandleAddStudent
           \/ HandleAddAnnouncement
           \/ \E coll \in Collections : \E i \in 1..Len(Materialized(coll)) :
                HandleDelete(coll, i)
           \/ WriteApply \/ WriteResolve \/ WriteReject ) =>
           UNCHANGED <<teachers, classes, students, announcements>> ]_vars

\* The store has lost the first teacher to a remove and taken in a pushed
\* class, both writes are done, and the view shows neither change yet.
C14_Witness ==
  /\ writes = <<>>
  /\ quota.push = 0 /\ quota.remove = 0
  /\ StoredKeys("teachers") = {Key(2)}
  /\ Len(store["classes"]) = 2
  /\ Len(teachers) = 2
  /\ Len(classes) = 1

\* The sequence seq holds one record per entry of the payload data and no
\* other: the entry's body under the entry's key.
HoldsExactly(seq, data) ==
  /\ Len(seq) = Len(data)
  /\ \A i \in 1..Len(data) :
       \E j \in 1..Len(seq) : seq[j] = Spread([id |-> data[i][1]], data[i][2])

\* C15: every delivery of a snapshot to the listener of a collection leaves
\* that collection holding the records of that snapshot alone, whatever it
\* held before; the step is one step, so no value in between is seen.
C15_LastSnapshotReplaces ==
  [][ \A l \in DOMAIN listeners : \A coll \in Collections :
        (Delivers(l) /\ listeners[l].path = <<coll>>) =>
          LET data == Head(listeners[l].queue)
              after == CASE coll = "teachers" -> teachers'
                         [] coll = "classes" -> classes'
                         [] coll = "students" -> students'
                         [] coll = "announcements" -> announcements'
          IN  HoldsExactly(after, data) ]_vars

\* After the snapshots of a remove and of a push the view holds the second
\* teacher alone and two classes: the removed teacher is gone from it.
C15_Witness ==
  /\ Quiescent
  /\ quota.push = 0 /\ quota.remove = 0
  /\ Len(teachers) = 1 /\ teachers[1].id = Key(2)
  /\ Len(classes) = 2

\* The listeners the store holds on a path.
ListenersOn(path) == {l \in DOMAIN listeners : listeners[l].path = path}

\* C16: while the component is mounted the store holds exactly one
\* listener on each of the four collection paths; once it is unmounted the
\* store holds no listener of it, on a collection or on a schedule, and no
\* step changes a materialized collection or the timetable data.
C16_SubscriptionsLiveWithTheView ==
  /\ [](mounted => \A i \in 1..Len(MainPaths) :
                     Cardinality(ListenersOn(MainPaths[i])) = 1)
  /\ [](~mounted => DOMAIN listeners = {})
  /\ [][~mounted => UNCHANGED <<teachers, classes, students, announcements,
                                timetableData>>]_vars

\* The component was unmounted with a class selected whose schedule it had
\* shown, and the store's schedule for that class is no longer the one shown.
C16_Witness ==
  /\ ~mounted
  /\ selectedTimetableClass # ""
  /\ timetableData # <<>>
  /\ timetableData # ValueAt(store, schedules, <<"schedules", selectedTimetableClass>>)

\* The paths of the four collections.
CollectionPaths == {<<coll>> : coll \in Collections}

\* The days a schedule is kept by.
Days == {"Monday", "Tuesday", "Wednesday", "Thursday", "Friday"}

\* Every push in flight targets a collection path and every remove a
\* record path directly under one.
WritesStayInCollections ==
  \A i \in 1..Len(writes) :
    IF writes[i].op = "push" THEN writes[i].path \in CollectionPaths
    ELSE /\ Len(writes[i].path) = 2
         /\ writes[i].path[1] \in Collections
         /\ writes[i].path[2] # ""

\* C18 as stated: every dbListen call is on a collection path or on a path
\* schedules/{classId}/{day}, and the writes stay in the collections.
C18_SubscribesPerDay ==
  /\ \A i \in 1..Len(calls) :
       calls[i].fn = "dbListen" =>
         \/ calls[i].path \in CollectionPaths
         \/ /\ Len(calls[i].path) = 3
            /\ calls[i].path[1] = "schedules"
            /\ calls[i].path[3] \in Days
  /\ WritesStayInCollections

\* C18, amended: every dbListen call is on a collection path or on the
\* path schedules/{classId} of a class, under which the days lie; the
\* schedule listener the component holds is on the path of the selected
\* class; and the writes stay in the collections.
C18_SubscribesPerClass ==
  /\ \A i \in 1..Len(calls) :
       calls[i].fn = "dbListen" =>
         \/ calls[i].path \in CollectionPaths
         \/ /\ Len(calls[i].path) = 2
            /\ calls[i].path[1] = "schedules"
            /\ calls[i].path[2] # ""
  /\ unsub # 0 => listeners[unsub].path = <<"schedules", selectedTimetableClass>>
  /\ WritesStayInCollections

\* A class is selected and its schedule, with its day, has arrived, while
\* a push and a remove are in flight.
C18_Witness ==
  /\ selectedTimetableClass # ""
  /\ unsub # 0
  /\ timetableData # <<>>
  /\ \E i, j \in 1..Len(writes) : writes[i].op = "push" /\ writes[j].op = "remove"

\* The materialized collection coll as this step leaves it.
After(coll) ==
  CASE coll = "teachers" -> teachers'
    [] coll = "classes" -> classes'
    [] coll = "students" -> students'
    [] coll = "announcements" -> announcements'

\* C19: after every delivery each materialized record's id is the key its
\* body was delivered under, and the ids of the collection are pairwise
\* distinct, also when a body carries an id field of its own.
C19_IdIsTheStoreKey ==
  [][ \A l \in DOMAIN listeners : \A coll \in {"teachers", "classes", "students"} :
        (Delivers(l) /\ listeners[l].path = <<coll>>) =>
          LET data == Head(listeners[l].queue)
          IN  /\ Len(After(coll)) = Len(data)
              /\ \A i \in 1..Len(data) : After(coll)[i].id = data[i][1]
              /\ \A i, j \in 1..Len(data) :
                   After(coll)[i].id = After(coll)[j].id => i = j ]_vars

\* C20: a delivery of an empty payload leaves the collection empty whatever
\* it held; a delivery of a non-empty payload leaves it with one record per
\* entry, carrying that entry's body, and, but for the announcements, which
\* are then sorted, in the order of the payload's entries.
C20_EmptyPayloadEmptiesAndOrderIsKept ==
  [][ \A l \in DOMAIN listeners : \A coll \in Collections :
        (Delivers(l) /\ listeners[l].path = <<coll>>) =>
          LET data == Head(listeners[l].queue)
              Carries(r, e) == \A f \in (DOMAIN e[2]) \ {"id"} :
                                 f \in DOMAIN r /\ r[f] = e[2][f]
          IN  IF data = <<>> THEN After(coll) = <<>>
              ELSE /\ Len(After(coll)) = Len(data)
                   /\ coll # "announcements" =>
                        \A i \in 1..Len(data) : Carries(After(coll)[i], data[i])
                   /\ coll = "announcements" =>
                        \E p \in [1..Len(data) -> 1..Len(data)] :
                          /\ \A i, j \in 1..Len(data) : p[i] = p[j] => i = j
                          /\ \A i \in 1..Len(data) :
                               Carries(After(coll)[p[i]], data[i]) ]_vars

\* The only class was deleted and the empty snapshot delivered over the
\* list that showed it, and the snapshot of a pushed student delivered.
C20_Witness ==
  /\ Quiescent
  /\ store["classes"] = <<>>
  /\ classes = <<>>
  /\ Len(students) = 1

\* C21: a delete click queues exactly one write, the remove on the path of
\* the record clicked, and no push; and a remove that the store takes in
\* changes no collection but its own, so that the classes of a deleted
\* teacher stay in the store with their teacherId and teacherName, and the
\* students of a deleted class stay in the store.
C21_DeleteDoesNotCascade ==
  [][ /\ \A coll \in Collections : \A i \in 1..Len(Materialized(coll)) :
           HandleDelete(coll, i) =>
             /\ writes' = Append(writes, writes'[Len(writes')])
             /\ writes'[Len(writes')].op = "remove"
             /\ writes'[Len(writes')].path = <<coll, Materialized(coll)[i].id>>
      /\ \A i \in 1..Len(writes) :
           RemoveApplied(i) =>
             /\ \A coll \in Collections \ {writes[i].path[1]} :
                  store'[coll] = store[coll]
             /\ SubSeq(writes', 1, i - 1) = SubSeq(writes, 1, i - 1)
             /\ SubSeq(writes', i + 1, Len(writes)) = SubSeq(writes, i + 1, Len(writes))
      /\ \A i \in 1..Len(writes') : writes'[i].op = "remove" ]_vars

\* The teacher is gone from the store, no write is in flight, and the store
\* still holds the teacher's class, naming the teacher by id and by name,
\* and that class's student.
C21_Witness ==
  /\ writes = <<>>
  /\ store["teachers"] = <<>>
  /\ Len(store["classes"]) = 1
  /\ store["classes"][1].val.teacherId = Key(1)
  /\ store["classes"][1].val.teacherName = "Ann"
  /\ Len(store["students"]) = 1
  /\ store["students"][1].val.classId = Key(store["classes"][1].k)

\* This step is the completion of the push at the head of the queue, which
\* the store had taken in, issued by the handler of form m.
PushCompletes(m) ==
  /\ writes # <<>>
  /\ writes[1].op = "push"
  /\ writes[1].phase = "applied"
  /\ writes[1].by = m
  /\ writes' = Tail(writes)

\* This step is a submit of a complete draft, or the store taking in a
\* write: steps during which a push is in flight and not yet complete.
PushUnderWay ==
  \/ HandleAddTeacher /\ Complete("teacher")
  \/ HandleAddClass /\ Complete("class")
  \/ HandleAddStudent /\ Complete("student")
  \/ HandleAddAnnouncement /\ Complete("announcement")
  \/ WriteApply

\* C22: the submit step of a valid draft and the store's taking in of the
\* push leave the drafts, the modal and the notification as they are; the
\* step in which the push completes resets the handler's draft, closes the
\* modal and signals success; and success is signalled in no other step.
C22_ResetCloseSuccessAfterPush ==
  [][ /\ PushUnderWay => UNCHANGED <<drafts, showModal, toast>>
      /\ \A m \in Modals :
           PushCompletes(m) =>
             /\ Draft(m)' = EmptyDraft(m)
             /\ showModal' = NoModal
             /\ toast' = "success"
      /\ (toast' = "success" /\ toast # "success") =>
           \E m \in Modals : PushCompletes(m) ]_vars

\* The push of a teacher has completed: the store holds the record, the
\* draft is empty again, no modal is open and success is shown.
C22_Witness ==
  /\ writes = <<>>
  /\ quota.push = 0
  /\ Len(store["teachers"]) = 3
  /\ newTeacher = EmptyTeacher
  /\ showModal = NoModal
  /\ toast = "success"

\* The store holds a record under key k in the collection coll.
Stored(coll, k) == \E i \in 1..Len(store[coll]) : store[coll][i].k = k

\* The materialized collection coll shows the record of key k.
Shown(coll, k) ==
  \E i \in 1..Len(Materialized(coll)) : Materialized(coll)[i].id = Key(k)

\* The record of key k is shown in coll after this step.
ShownAfter(coll, k) == \E i \in 1..Len(After(coll)) : After(coll)[i].id = Key(k)

\* The keys the store generates for the pushes of a run.
RunKeys ==
  LET seeded == Len(FormsStore["teachers"]) + Len(FormsStore["classes"])
  IN  (seeded + 1)..(seeded + MaxPush)

\* C23: while the component stays mounted and snapshots keep being
\* delivered, every record the store holds after a push is in the end shown
\* in its materialized collection, unless it is removed from the store; and
\* a record comes to be shown only in a step that delivers a snapshot to
\* the listener of its collection.
C23_PushedRecordAppearsBySnapshot ==
  /\ \A coll \in Collections : \A k \in RunKeys :
       Stored(coll, k) ~> (Shown(coll, k) \/ ~Stored(coll, k))
  /\ [][ \A coll \in Collections : \A k \in RunKeys :
           (~Shown(coll, k) /\ ShownAfter(coll, k)) =>
             \E l \in DOMAIN listeners :
               listeners[l].path = <<coll>> /\ Delivers(l) ]_vars

\* The class the run pushed, under the key generated for it, is shown in
\* the materialized classes.
C23_Witness ==
  /\ quota.push = 0
  /\ Stored("classes", nextKey - 1)
  /\ Shown("classes", nextKey - 1)
  /\ Len(classes) = Len(FormsStore["classes"]) + 1

\* This step is the store taking in the write at position i of the queue.
TakesIn(i) ==
  /\ i \in 1..Len(writes)
  /\ writes[i].phase = "sent"
  /\ Len(writes') = Len(writes)
  /\ writes'[i].phase = "applied"

\* C24: the teardown leaves the writes in flight and the store as they
\* are; a write in flight after the teardown can still be taken in by the
\* store, and when it is, the store changes as the write says; and after
\* the teardown no step changes a materialized collection.
C24_TeardownDoesNotCancelWrites ==
  /\ [][ /\ (mounted /\ ~mounted') => UNCHANGED <<writes, store>>
         /\ ~mounted => UNCHANGED <<teachers, classes, students, announcements>>
         /\ \A i \in 1..Len(writes) :
              (~mounted /\ TakesIn(i)) =>
                IF writes[i].op = "push"
                THEN /\ ~Stored(writes[i].path[1], writes[i].k)
                     /\ \E j \in 1..Len(store'[writes[i].path[1]]) :
                          /\ store'[writes[i].path[1]][j].k = writes[i].k
                          /\ store'[writes[i].path[1]][j].val = writes[i].val
                ELSE writes[i].path[2] \notin
                       {Key(store'[writes[i].path[1]][j].k) :
                          j \in 1..Len(store'[writes[i].path[1]])} ]_vars
  /\ []((~mounted /\ OldestSent(writes) # 0) => ENABLED WriteApply)

\* The component is unmounted, the push of a class and the remove of a
\* teacher are still in flight, neither yet taken in by the store.
C24_Witness ==
  /\ ~mounted
  /\ Len(writes) = 2
  /\ \E i, j \in 1..2 :
       /\ writes[i].op = "push" /\ writes[i].phase = "sent"
       /\ writes[j].op = "remove" /\ writes[j].phase = "sent"
       /\ writes[j].path[1] = "teachers"
       /\ writes[j].path[2] \in StoredKeys("teachers")

\* C25: the displayed student/teacher ratio is 0 when there is no teacher
\* and otherwise students / teachers rounded to the nearest integer, an
\* exact half rounded up; the displayed total capacity is 30 times the
\* number of materialized classes.
C25_RatioRoundsHalfUpCapacityIsThirtyPerClass ==
  LET s == Len(students)
      t == Len(teachers)
      nearest == CHOOSE n \in 0..s :
                   /\ 2 * n * t <= 2 * s + t
                   /\ 2 * s + t < 2 * (n + 1) * t
  IN  /\ StudentTeacherRatio = IF t = 0 THEN 0 ELSE nearest
      /\ TotalCapacity = 30 * Len(classes)

\* Five students, two teachers and four classes are materialized: a ratio
\* of 2.5, displayed as 3, and a capacity of 120.
C25_Witness ==
  /\ Len(students) = 5
  /\ Len(teachers) = 2
  /\ Len(classes) = 4
  /\ StudentTeacherRatio = 3
  /\ TotalCapacity = 120

\* The number of materialized teachers of the given subject.
TeachersOf(subject) ==
  Cardinality({i \in 1..Len(teachers) : teachers[i].subject = subject})

RECURSIVE SumOfValues(_)
SumOfValues(r) ==
  IF r = <<>> THEN 0
  ELSE (IF Head(r).value.type = "number" THEN Head(r).value.n ELSE 0)
         + SumOfValues(Tail(r))

\* C26: the group-by-subject report has exactly one entry per subject that
\* a materialized teacher has, the entry's count is the number of teachers
\* of that subject, and the counts sum to the number of teachers.
C26_TeachersBySubjectReport ==
  LET r == TeachersBySubject
  IN  /\ \A i \in 1..Len(teachers) :
           Cardinality({j \in 1..Len(r) : r[j].name = teachers[i].subject}) = 1
      /\ \A j \in 1..Len(r) :
           /\ TeachersOf(r[j].name) > 0
           /\ r[j].value = Num(TeachersOf(r[j].name))
      /\ SumOfValues(r) = Len(teachers)

\* A push of form m's present draft is in flight: issued by m's handler,
\* carrying the draft's required fields, its promise not yet settled.
DraftInFlight(m) ==
  \E i \in 1..Len(writes) :
    /\ writes[i].op = "push"
    /\ writes[i].by = m
    /\ \A f \in Required(m) : writes[i].val[f] = Draft(m)[f]

\* A step of handler H on form m issues no push while a push of the same
\* draft is in flight.
NoSecondPush(H, m) == (H /\ DraftInFlight(m)) => writes' = writes

\* C27: a draft filled in once results in at most one pushed record: while
\* the push of a valid draft is in flight, the same submit handler invoked
\* again does not issue a second push of that draft.
C27_NoSecondPushOfTheSameDraft ==
  [][ /\ NoSecondPush(HandleAddTeacher, "teacher")
      /\ NoSecondPush(HandleAddClass, "class")
      /\ NoSecondPush(HandleAddStudent, "student")
      /\ NoSecondPush(HandleAddAnnouncement, "announcement") ]_vars

\* The listener whose snapshot the timetable data hold was opened on the
\* schedule path of class c.
DataFromScheduleOf(c) ==
  \E i \in 1..Len(calls) :
    calls[i] = ListenCall(timetableFrom, <<"schedules", c>>)

\* C28: whenever a timetable class is selected and the timetable data are
\* not empty, the data are the payload of a snapshot delivered by the
\* subscription to that class's schedule path; the schedule of a class
\* selected before is never held while another class is selected.
C28_TimetableDataIsOfTheSelectedClass ==
  (mounted /\ selectedTimetableClass # "" /\ timetableData # <<>>) =>
    DataFromScheduleOf(selectedTimetableClass)

====
